---------------------------- MODULE Spec2Model ----------------------------
(***************************************************************************)
(* A model of the CSV ingestion pipeline of sensor_data_import             *)
(* (scanner/csv_scanner.go): the scanner's configuration, the record       *)
(* parser, the worker pool of processFilesParallel with the per-file       *)
(* persistence of processCSVFile, and the summary of displaySummary.       *)
(*                                                                         *)
(* Text is modelled as a sequence of one-character strings, so that        *)
(* trimming, lower-casing, substring search and the parsing of timestamps  *)
(* and numbers are computed character by character, as the Go library      *)
(* functions the source calls compute them.                                *)
(***************************************************************************)
EXTENDS Integers, Sequences, FiniteSets, TLC

(***************************************************************************)
(* Bounds of the model.                                                    *)
(***************************************************************************)
\* the longest file (in rows) the parser specification reads
MaxRows == 3
\* the longest job list the pool specification processes
MaxFiles == 2
\* the largest worker count the pool specification runs with
MaxWorkers == 2
\* the durations of the results the summary specification aggregates are
\* drawn from 1..MaxDuration
MaxDuration == 2
\* the chunk size of batchInsertSensorData: 1000 in the source (line 318),
\* scaled down so that a file of three readings spans two chunks
batchSize == 2
\* the machine's CPU count is drawn from 1..MaxCPU
MaxCPU == 10
\* SetWorkerCount's argument is drawn from -1..MaxCount
MaxCount == 10
\* the longest result list the summary specification aggregates
MaxResults == 3

(***************************************************************************)
(* The state.                                                              *)
(***************************************************************************)
VARIABLES
    \* CSVScanner and its construction
    numCPU,         \* runtime.NumCPU()
    workerCount,    \* CSVScanner.workerCount
    lastCount,      \* the last SetWorkerCount call: [called, count]
    prevCount,      \* workerCount as that call found it
    \* parseCSVRecords
    records,        \* the rows of the file, as csv.Reader.ReadAll returns them
    parsePc,        \* "idle", "start", "loop" or "done"
    rowIdx,         \* the loop variable i (0-based)
    sensorData,     \* the readings emitted so far
    errorCount,     \* the rows counted as errors so far
    rowLog,         \* per row passed: what the parser added for it
    \* ScanDirectory from processFilesParallel on
    files,          \* the job list
    store,          \* the rows of the sensor_data table
    initStore,      \* the table as the run found it
    jobs,           \* the jobs channel: [buf, closed]
    results,        \* the results channel: [buf, closed, closes]
    wg,             \* the WaitGroup's counter
    mainPc,         \* where ScanDirectory's goroutine is
    started,        \* worker goroutines started so far
    producer,       \* the sending goroutine: [pc, next]
    supervisorPc,   \* the goroutine that waits and closes results
    worker,         \* per worker goroutine: its position and locals
    allResults,     \* the results collected by processFilesParallel
    summary,        \* the totals displaySummary reported
    receipts,       \* per job of the list: how many times a worker received it
    panicked,       \* a goroutine panicked (send on, or close of, a closed channel)
    reordered,      \* the collected results were reordered after the summary was shown
    \* the scan command
    target,         \* what the path given to ScanDirectory names
    scanErr,        \* what ScanDirectory returned, "running" until it returns
    exitCode        \* the exit status of the command, -1 while it runs

configVars == <<numCPU, workerCount, lastCount, prevCount>>
parseVars == <<records, parsePc, rowIdx, sensorData, errorCount, rowLog>>
poolVars == <<files, store, initStore, jobs, results, wg, mainPc, started, producer,
              supervisorPc, worker, allResults, summary, receipts, panicked,
              reordered>>
scanVars == <<target, scanErr, exitCode>>
vars == <<configVars, parseVars, poolVars, scanVars>>

(***************************************************************************)
(* Text: strings.TrimSpace, strings.ToLower, strings.Contains.             *)
(***************************************************************************)
Digits == {"0", "1", "2", "3", "4", "5", "6", "7", "8", "9"}

DigitVal(c) ==
    CASE c = "0" -> 0 [] c = "1" -> 1 [] c = "2" -> 2 [] c = "3" -> 3
      [] c = "4" -> 4 [] c = "5" -> 5 [] c = "6" -> 6 [] c = "7" -> 7
      [] c = "8" -> 8 [] c = "9" -> 9

IsSpace(c) == c \in {" ", "\t", "\n", "\r"}

SetMin(S) == CHOOSE x \in S : \A y \in S : x <= y
SetMax(S) == CHOOSE x \in S : \A y \in S : x >= y

\* strings.TrimSpace: the text without its leading and trailing white space
TrimSpace(s) ==
    LET keep == {i \in 1..Len(s) : ~IsSpace(s[i])}
    IN  IF keep = {} THEN <<>> ELSE SubSeq(s, SetMin(keep), SetMax(keep))

LowerChar(c) ==
    CASE c = "A" -> "a" [] c = "B" -> "b" [] c = "C" -> "c" [] c = "D" -> "d"
      [] c = "E" -> "e" [] c = "F" -> "f" [] c = "G" -> "g" [] c = "H" -> "h"
      [] c = "I" -> "i" [] c = "J" -> "j" [] c = "K" -> "k" [] c = "L" -> "l"
      [] c = "M" -> "m" [] c = "N" -> "n" [] c = "O" -> "o" [] c = "P" -> "p"
      [] c = "Q" -> "q" [] c = "R" -> "r" [] c = "S" -> "s" [] c = "T" -> "t"
      [] c = "U" -> "u" [] c = "V" -> "v" [] c = "W" -> "w" [] c = "X" -> "x"
      [] c = "Y" -> "y" [] c = "Z" -> "z" [] OTHER -> c

\* strings.ToLower
ToLower(s) == [i \in 1..Len(s) |-> LowerChar(s[i])]

\* strings.Contains
Contains(s, sub) ==
    \E i \in 0..(Len(s) - Len(sub)) : SubSeq(s, i + 1, i + Len(sub)) = sub

AllDigits(s) == \A i \in 1..Len(s) : s[i] \in Digits

RECURSIVE NumVal(_)
\* the number a sequence of decimal digits denotes
NumVal(s) ==
    IF s = <<>> THEN 0
    ELSE 10 * NumVal(SubSeq(s, 1, Len(s) - 1)) + DigitVal(s[Len(s)])

(***************************************************************************)
(* time.Parse, for the three layouts the parser tries.  A time.Time is a   *)
(* record [sec, frac, loc]: the Unix second of the instant, the digits of  *)
(* its fractional second, and its location (UTC, or a fixed zone with its  *)
(* offset in seconds east of Greenwich).                                   *)
(***************************************************************************)
IsLeap(y) == (y % 4 = 0) /\ ((y % 100 # 0) \/ (y % 400 = 0))

DaysIn(m, y) ==
    IF m = 2 THEN (IF IsLeap(y) THEN 29 ELSE 28)
    ELSE IF m \in {4, 6, 9, 11} THEN 30 ELSE 31

\* days from 1970-01-01 to the civil date y-m-d
DaysFromCivil(y, m, d) ==
    LET yy  == IF m <= 2 THEN y - 1 ELSE y
        era == yy \div 400
        yoe == yy - era * 400
        mp  == IF m > 2 THEN m - 3 ELSE m + 9
        doy == (153 * mp + 2) \div 5 + d - 1
        doe == yoe * 365 + yoe \div 4 - yoe \div 100 + doy
    IN  era * 146097 + doe - 719468

UTCLoc == [name |-> "UTC", offset |-> 0]
FixedZone(offset) == [name |-> "fixed", offset |-> offset]

NoTime == [ok |-> FALSE, time |-> [sec |-> 0, frac |-> <<>>, loc |-> UTCLoc]]

\* trailing zeros carry no time
RECURSIVE StripZeros(_)
StripZeros(s) ==
    IF s # <<>> /\ s[Len(s)] = "0" THEN StripZeros(SubSeq(s, 1, Len(s) - 1))
    ELSE s

\* The layout elements 2006-01-02, a separator, 15:04:05 and what follows the
\* seconds.  Year, month, day, minute and second have a fixed width; the hour
\* (layout element 15) may be written with one digit.  A fractional second may
\* follow the seconds although the layout names none.  withZone: the layout
\* ends with Z07:00 (RFC 3339); otherwise nothing may follow.

\* the date and the separator, in s[1..11]
DateOk(s, sep) ==
    /\ Len(s) >= 11
    /\ AllDigits(SubSeq(s, 1, 4)) /\ s[5] = "-"
    /\ AllDigits(SubSeq(s, 6, 7)) /\ s[8] = "-"
    /\ AllDigits(SubSeq(s, 9, 10)) /\ s[11] = sep
    /\ NumVal(SubSeq(s, 6, 7)) \in 1..12
    /\ NumVal(SubSeq(s, 9, 10))
         \in 1..DaysIn(NumVal(SubSeq(s, 6, 7)), NumVal(SubSeq(s, 1, 4)))

\* the number of digits of the hour, which starts at s[12]
HourLen(s) ==
    IF Len(s) >= 13 /\ s[12] \in Digits /\ s[13] \in Digits THEN 2
    ELSE IF Len(s) >= 12 /\ s[12] \in Digits THEN 1 ELSE 0

\* the hour ends at s[p]; then :04:05
ClockOk(s, p) ==
    /\ p > 11 /\ Len(s) >= p + 6
    /\ s[p + 1] = ":" /\ AllDigits(SubSeq(s, p + 2, p + 3))
    /\ s[p + 4] = ":" /\ AllDigits(SubSeq(s, p + 5, p + 6))
    /\ NumVal(SubSeq(s, 12, p)) < 24
    /\ NumVal(SubSeq(s, p + 2, p + 3)) < 60
    /\ NumVal(SubSeq(s, p + 5, p + 6)) < 60

\* the seconds of the wall clock time since 1970-01-01T00:00:00
WallSeconds(s, p) ==
    DaysFromCivil(NumVal(SubSeq(s, 1, 4)), NumVal(SubSeq(s, 6, 7)),
                  NumVal(SubSeq(s, 9, 10))) * 86400
    + NumVal(SubSeq(s, 12, p)) * 3600
    + NumVal(SubSeq(s, p + 2, p + 3)) * 60
    + NumVal(SubSeq(s, p + 5, p + 6))

\* the seconds end at s[q]: where the fractional second after them ends
FracEnd(s, q) ==
    IF Len(s) >= q + 2 /\ s[q + 1] \in {".", ","} /\ s[q + 2] \in Digits
    THEN SetMax({k \in (q + 2)..Len(s) : AllDigits(SubSeq(s, q + 2, k))})
    ELSE q

\* a numeric zone: +07:00 or -07:00
ZoneNumOk(z) ==
    /\ Len(z) = 6 /\ z[1] \in {"+", "-"}
    /\ AllDigits(SubSeq(z, 2, 3)) /\ z[4] = ":" /\ AllDigits(SubSeq(z, 5, 6))
    /\ NumVal(SubSeq(z, 2, 3)) <= 24
    /\ NumVal(SubSeq(z, 5, 6)) <= 60

ZoneOffset(z) ==
    (IF z[1] = "-" THEN -1 ELSE 1)
    * (NumVal(SubSeq(z, 2, 3)) * 3600 + NumVal(SubSeq(z, 5, 6)) * 60)

\* the time, given the wall clock seconds, the fraction and the text z after it
WithZone(wall, frac, z, withZone) ==
    IF ~withZone
    THEN (IF z = <<>>
          THEN [ok |-> TRUE, time |-> [sec |-> wall, frac |-> frac, loc |-> UTCLoc]]
          ELSE NoTime)
    ELSE IF z = <<"Z">>
    THEN [ok |-> TRUE, time |-> [sec |-> wall, frac |-> frac, loc |-> UTCLoc]]
    ELSE IF ZoneNumOk(z)
    THEN [ok |-> TRUE,
          time |-> [sec |-> wall - ZoneOffset(z), frac |-> frac,
                    loc |-> FixedZone(ZoneOffset(z))]]
    ELSE NoTime

\* from the seconds, which end at s[q], with the fraction ending at s[e]
ParseTail(s, p, q, e, withZone) ==
    WithZone(WallSeconds(s, p),
             IF e > q THEN StripZeros(SubSeq(s, q + 2, e)) ELSE <<>>,
             SubSeq(s, e + 1, Len(s)), withZone)

\* from the hour, which ends at s[p]
ParseClock(s, p, withZone) ==
    IF ClockOk(s, p) THEN ParseTail(s, p, p + 6, FracEnd(s, p + 6), withZone)
    ELSE NoTime

ParseLayout(s, sep, withZone) ==
    IF DateOk(s, sep) THEN ParseClock(s, 11 + HourLen(s), withZone) ELSE NoTime

\* time.Parse(time.RFC3339, s)
ParseRFC3339(s) == ParseLayout(s, "T", TRUE)
\* time.Parse("2006-01-02T15:04:05", s)
ParseISONoZone(s) == ParseLayout(s, "T", FALSE)
\* time.Parse("2006-01-02 15:04:05", s)
ParseSpaced(s) == ParseLayout(s, " ", FALSE)

\* Time.UTC: the same instant, with the location set to UTC
UTC(t) == [t EXCEPT !.loc = UTCLoc]


(***************************************************************************)
(* strconv.ParseFloat(s, 64): an optional sign, then a decimal number      *)
(* (digits with an optional point and an optional exponent) or one of the  *)
(* special texts inf, infinity, nan in any letter case (nan takes no       *)
(* sign).  The whole text must be consumed.  Hexadecimal numbers and       *)
(* digit-separating underscores are not modelled.  A decimal number too    *)
(* large for a float64 is a range error.                                   *)
(***************************************************************************)
Float(class, neg, mant, exp) ==
    [ok |-> TRUE, value |-> [class |-> class, neg |-> neg, mant |-> mant, exp |-> exp]]
NoFloat ==
    [ok |-> FALSE, value |-> [class |-> "none", neg |-> FALSE, mant |-> <<>>, exp |-> 0]]

RECURSIVE StripLeadingZeros(_)
StripLeadingZeros(s) ==
    IF s # <<>> /\ s[1] = "0" THEN StripLeadingZeros(Tail(s)) ELSE s

\* the longest prefix of s made of digits
DigitPrefix(s) ==
    SubSeq(s, 1, SetMax({k \in 0..Len(s) : AllDigits(SubSeq(s, 1, k))}))

\* the largest decimal exponent of a float64
MaxExp10 == 308

\* the exponent part x of a decimal number: empty, or e or E, an optional
\* sign and at least one digit
ExpOk(x) ==
    \/ x = <<>>
    \/ /\ Len(x) >= 2 /\ x[1] \in {"e", "E"}
       /\ IF x[2] \in {"+", "-"}
          THEN Len(x) >= 3 /\ AllDigits(SubSeq(x, 3, Len(x)))
          ELSE AllDigits(Tail(x))

ExpVal(x) ==
    IF x = <<>> THEN 0
    ELSE IF x[2] = "-" THEN 0 - NumVal(SubSeq(x, 3, Len(x)))
    ELSE IF x[2] = "+" THEN NumVal(SubSeq(x, 3, Len(x)))
    ELSE NumVal(Tail(x))

\* a decimal number: the digits before the point, those after it, the
\* exponent part
Decimal(neg, int, frac, x) ==
    IF /\ Len(int) + Len(frac) > 0
       /\ ExpOk(x)
       /\ \/ StripLeadingZeros(int \o frac) = <<>>
          \/ Len(StripLeadingZeros(int \o frac)) + ExpVal(x) - Len(frac) <= MaxExp10 + 1
    THEN Float("finite", neg, StripLeadingZeros(int \o frac), ExpVal(x) - Len(frac))
    ELSE NoFloat

\* the text after the digits before the point
AfterInt(neg, int, rest) ==
    IF rest # <<>> /\ rest[1] = "."
    THEN Decimal(neg, int, DigitPrefix(Tail(rest)),
                 SubSeq(rest, Len(DigitPrefix(Tail(rest))) + 2, Len(rest)))
    ELSE Decimal(neg, int, <<>>, rest)

\* the text after the sign
Unsigned(signed, neg, body) ==
    IF ToLower(body) \in {<<"i", "n", "f">>, <<"i", "n", "f", "i", "n", "i", "t", "y">>}
    THEN Float("inf", neg, <<>>, 0)
    ELSE IF ~signed /\ ToLower(body) = <<"n", "a", "n">>
    THEN Float("nan", FALSE, <<>>, 0)
    ELSE AfterInt(neg, DigitPrefix(body),
                  SubSeq(body, Len(DigitPrefix(body)) + 1, Len(body)))

ParseFloat(s) ==
    IF s # <<>> /\ s[1] \in {"+", "-"}
    THEN Unsigned(TRUE, s[1] = "-", Tail(s))
    ELSE Unsigned(FALSE, FALSE, s)

(***************************************************************************)
(* The record parser: isHeaderRow and the loop of parseCSVRecords.         *)
(***************************************************************************)
Timestamp_ == <<"t", "i", "m", "e", "s", "t", "a", "m", "p">>
Time_ == <<"t", "i", "m", "e">>
Date_ == <<"d", "a", "t", "e">>
Datetime_ == <<"d", "a", "t", "e", "t", "i", "m", "e">>
headerWords == {Timestamp_, Time_, Date_, Datetime_}

\* a variant of isHeaderRow that does not look at the number of columns
isHeaderRowAnyColumns(row) ==
    IF Len(row) < 1 THEN FALSE
    ELSE LET firstCol == ToLower(TrimSpace(row[1]))
         IN  IF \E word \in headerWords : Contains(firstCol, word) THEN TRUE
             ELSE ~ParseRFC3339(TrimSpace(row[1])).ok

\* isHeaderRow: whether the first row is likely a header
isHeaderRow(row) ==
    IF Len(row) < 3 THEN FALSE
    ELSE LET firstCol == ToLower(TrimSpace(row[1]))
         IN  IF \E word \in headerWords : Contains(firstCol, word) THEN TRUE
             ELSE ~ParseRFC3339(TrimSpace(row[1])).ok

\* the first of three parses that succeeded, else the last
FirstOk(a, b, c) == IF a.ok THEN a ELSE IF b.ok THEN b ELSE c

\* lines 253-265: the timestamp of a cell, RFC 3339 first, then the two
\* alternative layouts
ParseTimestamp(timestampStr) ==
    FirstOk(ParseRFC3339(timestampStr), ParseISONoZone(timestampStr),
            ParseSpaced(timestampStr))

\* a variant of the stages of lines 252-281 that looks at the name first
RowOutcomeNameFirst(timestamp, sensorName, value) ==
    IF sensorName = <<>> THEN [kind |-> "error", stage |-> "name"]
    ELSE IF ~timestamp.ok THEN [kind |-> "error", stage |-> "timestamp"]
    ELSE IF ~value.ok THEN [kind |-> "error", stage |-> "value"]
    ELSE [kind |-> "reading", stage |-> "none",
          reading |-> [Timestamp |-> UTC(timestamp.time),
                       SensorName |-> sensorName,
                       Value |-> value.value]]

\* lines 252-289: a row of at least 3 columns, given its parsed cells
RowOutcome(timestamp, sensorName, value) ==
    IF ~timestamp.ok THEN [kind |-> "error", stage |-> "timestamp"]
    ELSE IF sensorName = <<>> THEN [kind |-> "error", stage |-> "name"]
    ELSE IF ~value.ok THEN [kind |-> "error", stage |-> "value"]
    ELSE [kind |-> "reading", stage |-> "none",
          reading |-> [Timestamp |-> UTC(timestamp.time),
                       SensorName |-> sensorName,
                       Value |-> value.value]]

\* One iteration of the loop of parseCSVRecords on one row: the row is
\* skipped ("blank"), counted as an error at the stage that rejects it, or
\* yields a reading.
ParseRow(record) ==
    IF Len(record) = 0 \/ (Len(record) = 1 /\ TrimSpace(record[1]) = <<>>)
    THEN [kind |-> "blank", stage |-> "none"]
    ELSE IF Len(record) < 3 THEN [kind |-> "error", stage |-> "columns"]
    ELSE RowOutcome(ParseTimestamp(TrimSpace(record[1])),
                    TrimSpace(record[2]),
                    ParseFloat(TrimSpace(record[3])))

\* a variant of StartRow that never skips the first row
StartRowNoSkip(rows) == 0

\* the first row the loop of parseCSVRecords reads
StartRow(rows) ==
    IF Len(rows) > 0 /\ isHeaderRow(rows[1]) THEN 1 ELSE 0

\* a variant of the loop that counts a blank row as an error
AccountBlankAsError(acc, r) ==
    IF r.kind = "reading" THEN [acc EXCEPT !.sensorData = Append(@, r.reading)]
    ELSE [acc EXCEPT !.errorCount = @ + 1]

\* the loop's locals after a row with outcome r
Account(acc, r) ==
    IF r.kind = "reading" THEN [acc EXCEPT !.sensorData = Append(@, r.reading)]
    ELSE IF r.kind = "error" THEN [acc EXCEPT !.errorCount = @ + 1]
    ELSE acc

\* the loop's locals after one more row
LoopBody(acc, record) == Account(acc, ParseRow(record))

RECURSIVE ParseFrom(_, _, _)
ParseFrom(rows, i, acc) ==
    IF i >= Len(rows) THEN acc
    ELSE ParseFrom(rows, i + 1, LoopBody(acc, rows[i + 1]))

\* parseCSVRecords: the readings of a file and its error count
parseCSVRecords(rows) ==
    ParseFrom(rows, StartRow(rows), [sensorData |-> <<>>, errorCount |-> 0])


(***************************************************************************)
(* The texts the specifications draw cells, rows and files from.           *)
(***************************************************************************)
Day5 == <<"2", "0", "2", "5", "-", "0", "9", "-", "0", "5">>
Clock0800 == <<"0", "8", ":", "0", "0", ":", "0", "0">>
Clock0805 == <<"0", "8", ":", "0", "5", ":", "0", "0">>
Clock0100 == <<"0", "1", ":", "0", "0", ":", "0", "0">>
\* 2025-09-05T08:00:00Z
TsRFC == Day5 \o <<"T">> \o Clock0800 \o <<"Z">>
\* 2025-09-05T08:05:00Z
TsRFC2 == Day5 \o <<"T">> \o Clock0805 \o <<"Z">>
\* 2025-09-05T01:00:00+02:00, an instant of the day before in UTC
TsOffset == Day5 \o <<"T">> \o Clock0100 \o <<"+", "0", "2", ":", "0", "0">>
\* 2025-09-05T08:00:00, the layout without a zone
TsISO == Day5 \o <<"T">> \o Clock0800
\* 2025-09-05 08:05:00, the layout with a space, here with white space around it
TsSpaced == <<" ">> \o Day5 \o <<" ">> \o Clock0805 \o <<" ">>
TsBad == <<"b", "a", "d", "_", "t", "s">>
NameTemp == <<"t", "e", "m", "p", "_", "0", "1">>
NameHum == <<"h", "u", "m", "_", "0", "1">>
Val218 == <<"2", "1", ".", "8">>
ValNeg == <<"-", "1", ".", "5", "e", "2">>
ValBad == <<"n", "o", "t", "a", "n", "u", "m", "b", "e", "r">>
ValNaN == <<"N", "a", "N">>
Blank == <<" ">>
Empty == <<>>

RowRFC == <<TsRFC, NameTemp, Val218>>
RowRFC2 == <<TsRFC2, NameTemp, ValNeg>>
RowOffset == <<TsOffset, NameHum, Val218>>
RowISO == <<TsISO, NameHum, Val218>>
RowSpaced == <<TsSpaced, NameTemp, Val218, Blank>>
RowBadTs == <<TsBad, NameTemp, Val218>>
RowNoName == <<TsRFC, Empty, Val218>>
RowBadVal == <<TsRFC, NameTemp, ValBad>>
RowShort == <<TsRFC, NameTemp>>
RowShortBad == <<TsBad, NameTemp>>
RowBlank == <<Blank>>
RowHeader == <<<<"T", "i", "m", "e", "s", "t", "a", "m", "p">>, <<"s", "e", "n", "s", "o", "r", "_", "n", "a", "m", "e">>, <<"v", "a", "l", "u", "e">>>>


RowSamples == {RowRFC, RowRFC2, RowOffset, RowISO, RowSpaced, RowBadTs, RowNoName,
               RowBadVal, RowShort, RowShortBad, RowBlank, RowHeader}

\* the sequences over S of length at most n
SeqsUpTo(S, n) == UNION {[1..k -> S] : k \in 0..n}

\* value texts strconv.ParseFloat takes for a number that is not finite
ValInf == <<"I", "n", "f">>
ValPlusInf == <<"+", "I", "n", "f">>
ValMinusInf == <<"-", "I", "n", "f">>

RowNaN == <<TsRFC, NameTemp, ValNaN>>
RowInf == <<TsRFC, NameHum, ValInf>>
RowPlusInf == <<TsRFC2, NameTemp, ValPlusInf>>
RowMinusInf == <<TsRFC2, NameHum, ValMinusInf>>
\* rows with more than one defect
RowBadTsNoName == <<TsBad, Empty, Val218>>
RowNoNameBadVal == <<TsRFC, Blank, ValBad>>
RowAllBad == <<TsBad, Empty, ValBad>>

\* the rows of the files with values that are not finite and with rows of
\* several defects
DefectRowSamples == {RowRFC, RowHeader, RowBlank, RowNaN, RowInf, RowPlusInf,
                     RowMinusInf, RowBadVal, RowShortBad, RowBadTsNoName,
                     RowNoNameBadVal, RowAllBad}

(***************************************************************************)
(* The values of the variables a specification does not use.               *)
(***************************************************************************)
NoCall == [called |-> FALSE, count |-> 0]

ConfigIdle ==
    /\ numCPU = 1 /\ lastCount = NoCall /\ prevCount = 1

ParseIdle ==
    /\ records = <<>> /\ parsePc = "idle" /\ rowIdx = 0
    /\ sensorData = <<>> /\ errorCount = 0 /\ rowLog = <<>>

NoSummary == [shown |-> FALSE, totalFiles |-> 0, successfulFiles |-> 0,
              failedFiles |-> 0, totalRecords |-> 0, totalErrors |-> 0,
              totalDuration |-> 0]

PoolIdle ==
    /\ files = <<>> /\ store = {} /\ initStore = {}
    /\ jobs = [buf |-> <<>>, closed |-> FALSE]
    /\ results = [buf |-> <<>>, closed |-> FALSE, closes |-> 0]
    /\ wg = 0 /\ mainPc = "idle" /\ started = 0
    /\ producer = [pc |-> "idle", next |-> 1]
    /\ supervisorPc = "idle"
    /\ worker = <<>>
    /\ allResults = <<>>
    /\ summary = NoSummary
    /\ receipts = <<>>
    /\ panicked = FALSE
    /\ reordered = FALSE

NoTarget == [kind |-> "none", name |-> "", entries |-> <<>>]

ScanIdle ==
    /\ target = NoTarget /\ scanErr = "running" /\ exitCode = -1

(***************************************************************************)
(* NewCSVScanner and SetWorkerCount.                                       *)
(***************************************************************************)
\* NewCSVScanner: the worker count of a new scanner on a machine with cpus CPUs
NewCSVScanner(cpus) == IF cpus > 8 THEN 8 ELSE cpus

\* a variant of SetWorkerCountOn that takes 0 for a worker count
SetWorkerCountOnNonNegative(current, count) == IF count >= 0 THEN count ELSE current

\* SetWorkerCount(count) on a scanner whose worker count is current
SetWorkerCountOn(current, count) == IF count > 0 THEN count ELSE current

InitConfig ==
    /\ numCPU \in 1..MaxCPU
    /\ workerCount = NewCSVScanner(numCPU)
    /\ lastCount = NoCall
    /\ prevCount = workerCount
    /\ ParseIdle /\ PoolIdle /\ ScanIdle

SetWorkerCount(count) ==
    /\ workerCount' = SetWorkerCountOn(workerCount, count)
    /\ lastCount' = [called |-> TRUE, count |-> count]
    /\ prevCount' = workerCount
    /\ UNCHANGED <<numCPU, parseVars, poolVars, scanVars>>

NextConfig == \E count \in -1..MaxCount : SetWorkerCount(count)

SpecConfig == InitConfig /\ [][NextConfig]_vars

(***************************************************************************)
(* parseCSVRecords, one row of the file per step.                          *)
(***************************************************************************)
InitParse ==
    /\ records \in SeqsUpTo(RowSamples, MaxRows)
    /\ parsePc = "start"
    /\ rowIdx = 0
    /\ sensorData = <<>>
    /\ errorCount = 0
    /\ rowLog = <<>>
    /\ workerCount = 1 /\ ConfigIdle /\ PoolIdle /\ ScanIdle

\* what the parser added for the row it just passed
LogEntry(how, before, after) ==
    [how |-> how,
     readings |-> SubSeq(after.sensorData, Len(before.sensorData) + 1,
                         Len(after.sensorData)),
     errors |-> after.errorCount - before.errorCount]

\* the loop starts at row startRow
StartAt(startRow) ==
    /\ rowIdx' = startRow
    /\ rowLog' = IF startRow = 1
                 THEN <<[how |-> "header", readings |-> <<>>, errors |-> 0]>>
                 ELSE <<>>

\* lines 230-234: the first row is skipped when it looks like a header
DetectHeader ==
    /\ parsePc = "start"
    /\ StartAt(StartRow(records))
    /\ parsePc' = "loop"
    /\ UNCHANGED <<records, sensorData, errorCount, configVars, poolVars, scanVars>>

ParseLocals == [sensorData |-> sensorData, errorCount |-> errorCount]

\* the loop's locals become those of after
SetLocals(after) ==
    /\ sensorData' = after.sensorData
    /\ errorCount' = after.errorCount
    /\ rowLog' = Append(rowLog, LogEntry("parsed", ParseLocals, after))

\* lines 236-290: one iteration of the loop
ParseStep ==
    /\ parsePc = "loop"
    /\ rowIdx < Len(records)
    /\ SetLocals(LoopBody(ParseLocals, records[rowIdx + 1]))
    /\ rowIdx' = rowIdx + 1
    /\ UNCHANGED <<records, parsePc, configVars, poolVars, scanVars>>

\* line 292: the loop is over
ParseReturn ==
    /\ parsePc = "loop"
    /\ rowIdx >= Len(records)
    /\ parsePc' = "done"
    /\ UNCHANGED <<records, rowIdx, sensorData, errorCount, rowLog, configVars, poolVars, scanVars>>

NextParse == DetectHeader \/ ParseStep \/ ParseReturn

SpecParse == InitParse /\ [][NextParse]_vars

\* parseCSVRecords on the files of DefectRowSamples
InitParseDefects ==
    /\ records \in SeqsUpTo(DefectRowSamples, MaxRows)
    /\ parsePc = "start"
    /\ rowIdx = 0
    /\ sensorData = <<>>
    /\ errorCount = 0
    /\ rowLog = <<>>
    /\ workerCount = 1 /\ ConfigIdle /\ PoolIdle /\ ScanIdle

SpecParseDefects == InitParseDefects /\ [][NextParse]_vars


(***************************************************************************)
(* The Persistence Layer: the sensor_data table with its unique index on   *)
(* (timestamp, sensor_name).  A call fails on a duplicate key, and a batch *)
(* call is atomic.                                                         *)
(***************************************************************************)
Key(r) == <<r.Timestamp.sec, r.Timestamp.frac, r.SensorName>>

StoreKeys(st) == {Key(r) : r \in st}

Range(q) == {q[x] : x \in DOMAIN q}

\* db.CreateInBatches(batch, batchSize), for a batch of at most batchSize rows
CreateInBatches(st, batch) ==
    IF \/ \E x \in DOMAIN batch : Key(batch[x]) \in StoreKeys(st)
       \/ \E x, y \in DOMAIN batch : x # y /\ Key(batch[x]) = Key(batch[y])
    THEN [err |-> "duplicate key", store |-> st]
    ELSE [err |-> "nil", store |-> st \cup Range(batch)]

\* db.Create(&record) on a table without the unique index
CreateNoUniqueIndex(st, record) == [err |-> "nil", store |-> st \cup {record}]

\* db.Create(&record)
Create(st, record) ==
    IF Key(record) \in StoreKeys(st)
    THEN [err |-> "duplicate key", store |-> st]
    ELSE [err |-> "nil", store |-> st \cup {record}]

(***************************************************************************)
(* The files on disk, as os.Open and csv.Reader.ReadAll find them.         *)
(***************************************************************************)
Readable(rows) == [openErr |-> FALSE, readErr |-> FALSE, records |-> rows]

Disk ==
    [path \in {"SENSORS.CSV", "broken.csv", "empty.csv", "header.csv",
               "humidity.csv", "locked.csv", "pressure.csv", "temperature.csv"} |->
        CASE path = "temperature.csv" -> Readable(<<RowHeader, RowRFC, RowRFC2>>)
          [] path = "SENSORS.CSV" -> Readable(<<RowOffset>>)
          [] path = "header.csv" -> Readable(<<RowHeader>>)
          [] path = "humidity.csv" -> Readable(<<RowRFC, RowBadVal>>)
          [] path = "pressure.csv" ->
                 Readable(<<RowHeader, RowISO, RowSpaced, RowOffset>>)
          [] path = "empty.csv" -> Readable(<<>>)
          [] path = "locked.csv" ->
                 [openErr |-> TRUE, readErr |-> FALSE, records |-> <<>>]
          [] path = "broken.csv" ->
                 [openErr |-> FALSE, readErr |-> TRUE, records |-> <<>>]]

\* the CSV files of the directories the pool is run on alone, in the order of
\* os.ReadDir (sorted by name)
PathOrder ==
    <<"broken.csv", "empty.csv", "humidity.csv", "locked.csv", "pressure.csv",
      "temperature.csv">>

FileJob(path) == [FilePath |-> path, FileName |-> path]

RECURSIVE Listing(_, _)
\* the job list of the directory that holds the files of dir, from entry k on
Listing(dir, k) ==
    IF k > Len(PathOrder) THEN <<>>
    ELSE IF PathOrder[k] \in dir THEN <<FileJob(PathOrder[k])>> \o Listing(dir, k + 1)
    ELSE Listing(dir, k + 1)

\* the job lists of the directories of 1 to MaxFiles CSV files
JobLists ==
    {Listing(dir, 1) : dir \in {d \in SUBSET Range(PathOrder) :
                                  Cardinality(d) \in 1..MaxFiles}}

\* the tables a run may find: empty, or holding the reading of RowRFC
InitStores == {{}, {ParseRow(RowRFC).reading}}

(***************************************************************************)
(* processCSVFile, batchInsertSensorData and individualInsert, as the      *)
(* steps of a worker.  Elapsed time is counted in steps: one for reading   *)
(* and parsing the file, one per call of the Persistence Layer.            *)
(***************************************************************************)
NoJob == [FilePath |-> "", FileName |-> ""]

NewResult(job) ==
    [FilePath |-> job.FilePath, RecordCount |-> 0, ErrorCount |-> 0,
     Duration |-> 0, Error |-> "nil"]

\* a worker goroutine at its start
NewWorker ==
    [pc |-> "receive", job |-> NoJob, ticks |-> 0, data |-> <<>>, i |-> 0,
     batch |-> <<>>, k |-> 0, successCount |-> 0, lastError |-> "nil",
     result |-> NewResult(NoJob), submitted |-> {}, tried |-> <<>>,
     refused |-> <<>>]

\* a variant of Failed in which the worker goes on to the next job without
\* sending the result of the failed file
FailedSilently(w, job, error) == NewWorker

\* the worker returns from processCSVFile with a terminal error
Failed(w, job, error) ==
    [w EXCEPT !.pc = "send", !.job = job, !.ticks = 1,
              !.result = [NewResult(job) EXCEPT !.Error = error, !.Duration = 1]]

\* a variant of lines 204-216 that inserts also when there is no reading
ParsedAlwaysInsert(w, job, parsed) ==
    [w EXCEPT !.pc = "batch",
              !.job = job, !.ticks = 1,
              !.data = parsed.sensorData, !.i = 0,
              !.result = [NewResult(job) EXCEPT
                             !.RecordCount = Len(parsed.sensorData),
                             !.ErrorCount = parsed.errorCount,
                             !.Duration = 1]]

\* lines 204-216: the file is parsed; its readings, if any, are to be inserted
Parsed(w, job, parsed) ==
    [w EXCEPT !.pc = IF Len(parsed.sensorData) > 0 THEN "batch" ELSE "send",
              !.job = job, !.ticks = 1,
              !.data = parsed.sensorData, !.i = 0,
              !.result = [NewResult(job) EXCEPT
                             !.RecordCount = Len(parsed.sensorData),
                             !.ErrorCount = parsed.errorCount,
                             !.Duration = 1]]

\* line 205: parseCSVRecords on the rows of each file of the disk
ParsedRows ==
    [rows \in {Disk[path].records : path \in DOMAIN Disk} |-> parseCSVRecords(rows)]

\* a variant of BeginFile that does not check for a file without rows
BeginFileNoEmptyCheck(w, job, file) ==
    IF file.openErr THEN Failed(w, job, "failed to open file")
    ELSE IF file.readErr THEN Failed(w, job, "failed to read CSV")
    ELSE Parsed(w, job, ParsedRows[file.records])

\* lines 169-207: processCSVFile up to the insertion
BeginFile(w, job, file) ==
    IF file.openErr THEN Failed(w, job, "failed to open file")
    ELSE IF file.readErr THEN Failed(w, job, "failed to read CSV")
    ELSE IF Len(file.records) = 0 THEN Failed(w, job, "empty CSV file")
    ELSE Parsed(w, job, ParsedRows[file.records])

\* a variant of EndFile that reports the records the fallback inserted
EndFilePersistedCount(w, err) ==
    [w EXCEPT !.pc = "send",
              !.result = [@ EXCEPT !.Error = IF err = "nil" THEN "nil"
                                             ELSE "failed to insert data",
                                   !.RecordCount = IF w.batch # <<>>
                                                   THEN w.successCount ELSE @,
                                   !.Duration = w.ticks]]

\* processCSVFile returns: the insertion ended with err
EndFile(w, err) ==
    [w EXCEPT !.pc = "send",
              !.result = [@ EXCEPT !.Error = IF err = "nil" THEN "nil"
                                             ELSE "failed to insert data",
                                   !.Duration = w.ticks]]

\* lines 320-326: the chunk of data that starts at i (0-based)
Chunk(data, i) ==
    SubSeq(data, i + 1, IF i + batchSize > Len(data) THEN Len(data) ELSE i + batchSize)

\* lines 329-333: after the batch call on the chunk at w.i, which returned r
AfterBatch(w, r) ==
    IF r.err # "nil"
    THEN [w EXCEPT !.pc = "insert", !.batch = Chunk(w.data, w.i), !.k = 1,
                   !.successCount = 0, !.lastError = "nil"]
    ELSE IF w.i + batchSize < Len(w.data)
    THEN [w EXCEPT !.i = w.i + batchSize]
    ELSE EndFile(w, "nil")

\* a variant of lines 354-356 that reports any failed insert
InsertErrorOnAnyFailure(successCount, lastError) ==
    IF lastError # "nil" THEN "failed to insert any records" ELSE "nil"

\* lines 354-362: what individualInsert returns
InsertError(successCount, lastError) ==
    IF successCount = 0 /\ lastError # "nil"
    THEN "failed to insert any records"
    ELSE "nil"

\* lines 343-362: the locals of individualInsert after the call on record k,
\* which returned r; after the last record the function returns
Counted(w, successCount, lastError) ==
    IF w.k < Len(w.batch)
    THEN [w EXCEPT !.k = w.k + 1, !.successCount = successCount,
                   !.lastError = lastError]
    ELSE EndFile([w EXCEPT !.successCount = successCount, !.lastError = lastError],
                 InsertError(successCount, lastError))

\* a variant of AfterCreate that returns at the first insert that fails
AfterCreateStopOnError(w, r) ==
    IF r.err # "nil"
    THEN EndFile([w EXCEPT !.lastError = r.err], InsertError(w.successCount, r.err))
    ELSE Counted(w, w.successCount + 1, w.lastError)

\* lines 343-352: the locals of individualInsert after Create returned r
AfterCreate(w, r) ==
    IF r.err # "nil" THEN Counted(w, w.successCount, r.err)
    ELSE Counted(w, w.successCount + 1, w.lastError)

Tick(w) == [w EXCEPT !.ticks = w.ticks + 1]

\* line 329: the worker hands the chunk at w.i to CreateInBatches
Batched(w) ==
    [Tick(w) EXCEPT !.submitted = @ \cup Range(Chunk(w.data, w.i))]

\* lines 346-348: the worker hands record k of the failed chunk to Create,
\* which returns r
Inserted(w, r) ==
    [Tick(w) EXCEPT !.submitted = @ \cup {w.batch[w.k]},
                    !.tried = Append(@, w.batch[w.k]),
                    !.refused = IF r.err # "nil" THEN Append(@, w.batch[w.k])
                                ELSE @]


(***************************************************************************)
(* displaySummary: the totals of the report.                               *)
(***************************************************************************)
\* a variant of AddResult that stops adding the counts of the successful
\* files once a failed file was seen
AddResultUntilFailure(acc, result) ==
    IF result.Error # "nil"
    THEN [acc EXCEPT !.failedFiles = @ + 1,
                     !.totalDuration = @ + result.Duration]
    ELSE IF acc.failedFiles > 0
    THEN [acc EXCEPT !.successfulFiles = @ + 1,
                     !.totalDuration = @ + result.Duration]
    ELSE [acc EXCEPT !.successfulFiles = @ + 1,
                     !.totalRecords = @ + result.RecordCount,
                     !.totalErrors = @ + result.ErrorCount,
                     !.totalDuration = @ + result.Duration]

\* a variant of AddResult that adds the counts of the failed files too
AddResultCountingFailed(acc, result) ==
    IF result.Error # "nil"
    THEN [acc EXCEPT !.failedFiles = @ + 1,
                     !.totalRecords = @ + result.RecordCount,
                     !.totalErrors = @ + result.ErrorCount,
                     !.totalDuration = @ + result.Duration]
    ELSE [acc EXCEPT !.successfulFiles = @ + 1,
                     !.totalRecords = @ + result.RecordCount,
                     !.totalErrors = @ + result.ErrorCount,
                     !.totalDuration = @ + result.Duration]

\* lines 378-390: the loop's body for one result
AddResult(acc, result) ==
    IF result.Error # "nil"
    THEN [acc EXCEPT !.failedFiles = @ + 1,
                     !.totalDuration = @ + result.Duration]
    ELSE [acc EXCEPT !.successfulFiles = @ + 1,
                     !.totalRecords = @ + result.RecordCount,
                     !.totalErrors = @ + result.ErrorCount,
                     !.totalDuration = @ + result.Duration]

RECURSIVE SumFrom(_, _, _)
SumFrom(rs, x, acc) ==
    IF x > Len(rs) THEN acc ELSE SumFrom(rs, x + 1, AddResult(acc, rs[x]))

displaySummary(rs) ==
    SumFrom(rs, 1, [NoSummary EXCEPT !.shown = TRUE, !.totalFiles = Len(rs)])

(***************************************************************************)
(* processFilesParallel: the goroutines and the two channels.              *)
(***************************************************************************)
Workers == DOMAIN worker

Init ==
    /\ files \in JobLists
    /\ workerCount \in 1..MaxWorkers
    /\ initStore \in InitStores
    /\ store = initStore
    /\ jobs = [buf |-> <<>>, closed |-> FALSE]
    /\ results = [buf |-> <<>>, closed |-> FALSE, closes |-> 0]
    /\ wg = 0
    /\ mainPc = "spawn"
    /\ started = 0
    /\ producer = [pc |-> "idle", next |-> 1]
    /\ supervisorPc = "idle"
    /\ worker = <<>>
    /\ allResults = <<>>
    /\ summary = NoSummary
    /\ receipts = [x \in DOMAIN files |-> 0]
    /\ panicked = FALSE
    /\ reordered = FALSE
    /\ ConfigIdle /\ ParseIdle /\ ScanIdle

\* a variant of lines 131-134 that starts one worker per file of the job list
StartWorkerPerFile ==
    /\ mainPc = "spawn"
    /\ started < Len(files)
    /\ wg' = wg + 1
    /\ started' = started + 1
    /\ worker' = Append(worker, NewWorker)
    /\ UNCHANGED <<files, store, initStore, jobs, results, mainPc, producer,
                   supervisorPc, allResults, summary, receipts, panicked,
                   reordered, configVars, parseVars, scanVars>>

\* lines 131-134: wg.Add(1); go cs.worker(jobs, results, &wg)
StartWorker ==
    /\ mainPc = "spawn"
    /\ started < workerCount
    /\ wg' = wg + 1
    /\ started' = started + 1
    /\ worker' = Append(worker, NewWorker)
    /\ UNCHANGED <<files, store, initStore, jobs, results, mainPc, producer,
                   supervisorPc, allResults, summary, receipts, panicked,
                   reordered, configVars, parseVars, scanVars>>

\* lines 137-142: go func() { send the jobs; close(jobs) }()
StartProducer ==
    /\ mainPc = "spawn"
    /\ started >= workerCount
    /\ producer' = [producer EXCEPT !.pc = "send"]
    /\ mainPc' = "supervise"
    /\ UNCHANGED <<files, store, initStore, jobs, results, wg, started,
                   supervisorPc, worker, allResults, summary, receipts, panicked,
                   reordered, configVars, parseVars, scanVars>>

\* lines 145-148: go func() { wg.Wait(); close(results) }()
StartSupervisor ==
    /\ mainPc = "supervise"
    /\ supervisorPc' = "wait"
    /\ mainPc' = "collect"
    /\ UNCHANGED <<files, store, initStore, jobs, results, wg, started, producer,
                   worker, allResults, summary, receipts, panicked,
                   reordered, configVars, parseVars, scanVars>>

\* line 139: jobs <- file (the channel holds at most len(files) jobs)
ProducerSend ==
    /\ producer.pc = "send"
    /\ producer.next <= Len(files)
    /\ Len(jobs.buf) < Len(files)
    /\ jobs' = [jobs EXCEPT !.buf = Append(@, files[producer.next])]
    /\ panicked' = (panicked \/ jobs.closed)
    /\ producer' = [producer EXCEPT !.next = @ + 1]
    /\ UNCHANGED <<files, store, initStore, results, wg, mainPc, started,
                   supervisorPc, worker, allResults, summary, receipts,
                   reordered, configVars, parseVars, scanVars>>

\* a variant of ProducerClose that ends without closing the jobs channel
ProducerNeverCloses ==
    /\ producer.pc = "send"
    /\ producer.next > Len(files)
    /\ producer' = [producer EXCEPT !.pc = "done"]
    /\ UNCHANGED <<files, store, initStore, jobs, results, wg, mainPc, started,
                   supervisorPc, worker, allResults, summary, receipts, panicked,
                   reordered, configVars, parseVars, scanVars>>

\* line 141: close(jobs)
ProducerClose ==
    /\ producer.pc = "send"
    /\ producer.next > Len(files)
    /\ jobs' = [jobs EXCEPT !.closed = TRUE]
    /\ panicked' = (panicked \/ jobs.closed)
    /\ producer' = [producer EXCEPT !.pc = "done"]
    /\ UNCHANGED <<files, store, initStore, results, wg, mainPc, started,
                   supervisorPc, worker, allResults, summary, receipts,
                   reordered, configVars, parseVars, scanVars>>

\* the position of the job in the job list
JobIndex(job) == CHOOSE x \in DOMAIN files : files[x] = job

\* worker w has received job and starts processCSVFile on it
Received(w, job) ==
    /\ worker' = [worker EXCEPT ![w] = BeginFile(@, job, Disk[job.FilePath])]
    /\ receipts' = [receipts EXCEPT ![JobIndex(job)] = @ + 1]

\* a variant of WorkerReceive that leaves the job in the channel
WorkerReceivePeek(w) ==
    /\ w \in Workers
    /\ worker[w].pc = "receive"
    /\ jobs.buf # <<>>
    /\ Received(w, Head(jobs.buf))
    /\ UNCHANGED <<files, store, initStore, jobs, results, wg, mainPc, started,
                   producer, supervisorPc, allResults, summary, panicked,
                   reordered, configVars, parseVars, scanVars>>

\* lines 162-163, 169-207: the worker receives a job, reads and parses the file
WorkerReceive(w) ==
    /\ w \in Workers
    /\ worker[w].pc = "receive"
    /\ jobs.buf # <<>>
    /\ jobs' = [jobs EXCEPT !.buf = Tail(@)]
    /\ Received(w, Head(jobs.buf))
    /\ UNCHANGED <<files, store, initStore, results, wg, mainPc, started, producer,
                   supervisorPc, allResults, summary, panicked,
                   reordered, configVars, parseVars, scanVars>>

\* the persistence call of worker w returned r; next are the locals after it
Persisted(w, r, next) ==
    /\ store' = r.store
    /\ worker' = [worker EXCEPT ![w] = next]

\* lines 320-333: the batch call on the next chunk of the file
WorkerBatch(w) ==
    /\ w \in Workers
    /\ worker[w].pc = "batch"
    /\ Persisted(w, CreateInBatches(store, Chunk(worker[w].data, worker[w].i)),
                 AfterBatch(Batched(worker[w]),
                            CreateInBatches(store, Chunk(worker[w].data, worker[w].i))))
    /\ UNCHANGED <<files, initStore, jobs, results, wg, mainPc, started, producer,
                   supervisorPc, allResults, summary, receipts, panicked,
                   reordered, configVars, parseVars, scanVars>>

\* lines 343-352: the insert of the next record of the failed chunk
WorkerInsert(w) ==
    /\ w \in Workers
    /\ worker[w].pc = "insert"
    /\ Persisted(w, Create(store, worker[w].batch[worker[w].k]),
                 AfterCreate(Inserted(worker[w],
                                      Create(store, worker[w].batch[worker[w].k])),
                             Create(store, worker[w].batch[worker[w].k])))
    /\ UNCHANGED <<files, initStore, jobs, results, wg, mainPc, started, producer,
                   supervisorPc, allResults, summary, receipts, panicked,
                   reordered, configVars, parseVars, scanVars>>

\* line 164: results <- result (the channel holds at most len(files) results);
\* the locals of the iteration are dead from here on
WorkerSend(w) ==
    /\ w \in Workers
    /\ worker[w].pc = "send"
    /\ Len(results.buf) < Len(files)
    /\ results' = [results EXCEPT !.buf = Append(@, worker[w].result)]
    /\ panicked' = (panicked \/ results.closed)
    /\ worker' = [worker EXCEPT ![w] = NewWorker]
    /\ UNCHANGED <<files, store, initStore, jobs, wg, mainPc, started, producer,
                   supervisorPc, allResults, summary, receipts,
                   reordered, configVars, parseVars, scanVars>>

\* lines 160-166: the jobs channel is closed and drained; deferred wg.Done()
WorkerExit(w) ==
    /\ w \in Workers
    /\ worker[w].pc = "receive"
    /\ jobs.buf = <<>>
    /\ jobs.closed
    /\ worker' = [worker EXCEPT ![w].pc = "done"]
    /\ wg' = wg - 1
    /\ UNCHANGED <<files, store, initStore, jobs, results, mainPc, started, producer,
                   supervisorPc, allResults, summary, receipts, panicked,
                   reordered, configVars, parseVars, scanVars>>

\* a variant of SupervisorClose that does not wait for the workers
SupervisorCloseEarly ==
    /\ supervisorPc = "wait"
    /\ results' = [results EXCEPT !.closed = TRUE, !.closes = @ + 1]
    /\ panicked' = (panicked \/ results.closed)
    /\ supervisorPc' = "done"
    /\ UNCHANGED <<files, store, initStore, jobs, wg, mainPc, started, producer,
                   worker, allResults, summary, receipts, reordered, configVars,
                   parseVars, scanVars>>

\* lines 146-147: wg.Wait() returns; close(results)
SupervisorClose ==
    /\ supervisorPc = "wait"
    /\ wg = 0
    /\ results' = [results EXCEPT !.closed = TRUE, !.closes = @ + 1]
    /\ panicked' = (panicked \/ results.closed)
    /\ supervisorPc' = "done"
    /\ UNCHANGED <<files, store, initStore, jobs, wg, mainPc, started, producer,
                   worker, allResults, summary, receipts, reordered, configVars, parseVars, scanVars>>

\* lines 151-153: for result := range results
Collect ==
    /\ mainPc = "collect"
    /\ results.buf # <<>>
    /\ allResults' = Append(allResults, Head(results.buf))
    /\ results' = [results EXCEPT !.buf = Tail(@)]
    /\ UNCHANGED <<files, store, initStore, jobs, wg, mainPc, started, producer,
                   supervisorPc, worker, summary, receipts, panicked,
                   reordered, configVars, parseVars, scanVars>>

\* line 155: the results channel is closed and drained
PoolReturn ==
    /\ mainPc = "collect"
    /\ results.buf = <<>>
    /\ results.closed
    /\ mainPc' = "summary"
    /\ UNCHANGED <<files, store, initStore, jobs, results, wg, started, producer,
                   supervisorPc, worker, allResults, summary, receipts, panicked,
                   reordered, configVars, parseVars, scanVars>>

\* line 91: ScanDirectory returns nil, whatever the results hold
ScanReturnFailsOnFailedFile(list) ==
    IF \E x \in DOMAIN list : list[x].Error # "nil" THEN "files failed" ELSE "nil"

ScanReturn(list) == "nil"

\* lines 89-91: displaySummary(results); return nil
DisplaySummary ==
    /\ mainPc = "summary"
    /\ summary' = displaySummary(allResults)
    /\ mainPc' = "done"
    /\ scanErr' = ScanReturn(allResults)
    /\ UNCHANGED <<files, store, initStore, jobs, results, wg, started, producer,
                   supervisorPc, worker, allResults, receipts, panicked,
                   reordered, target, exitCode, configVars, parseVars>>

Main == StartWorker \/ StartProducer \/ StartSupervisor \/ Collect \/ PoolReturn
            \/ DisplaySummary
Producer == ProducerSend \/ ProducerClose
Supervisor == SupervisorClose
Worker(w) == WorkerReceive(w) \/ WorkerBatch(w) \/ WorkerInsert(w) \/ WorkerSend(w)
                \/ WorkerExit(w)

Next == Main \/ Producer \/ Supervisor \/ (\E w \in 1..MaxWorkers : Worker(w))

Spec == Init /\ [][Next]_vars

\* every goroutine that can take a step eventually takes one
FairSpec ==
    /\ Spec
    /\ WF_vars(Main) /\ WF_vars(Producer) /\ WF_vars(Supervisor)
    /\ \A w \in 1..MaxWorkers : WF_vars(Worker(w))


(***************************************************************************)
(* The scan command: scanCommand, ScanDirectory from its start, and        *)
(* findCSVFiles.  A directory entry is [Name, Letters, IsDir]: its name,   *)
(* the name spelled out, and whether it is a directory; Children are the   *)
(* entries below a subdirectory.                                           *)
(***************************************************************************)
MaxEntries == 3

Entry(name, letters, isDir, children) ==
    [Name |-> name, Letters |-> letters, IsDir |-> isDir, Children |-> children]

EntryTemperature ==
    Entry("temperature.csv", <<"t", "e", "m", "p", "e", "r", "a", "t", "u", "r", "e",
                               ".", "c", "s", "v">>, FALSE, <<>>)

\* the entries a directory may hold, in the order of os.ReadDir (sorted by name)
EntryOrder ==
    <<Entry("SENSORS.CSV", <<"S", "E", "N", "S", "O", "R", "S", ".", "C", "S", "V">>,
            FALSE, <<>>),
      Entry("archive.csv", <<"a", "r", "c", "h", "i", "v", "e", ".", "c", "s", "v">>,
            TRUE, <<>>),
      Entry("csv", <<"c", "s", "v">>, FALSE, <<>>),
      Entry("data.csv.bak", <<"d", "a", "t", "a", ".", "c", "s", "v", ".", "b", "a",
                              "k">>, FALSE, <<>>),
      Entry("empty.csv", <<"e", "m", "p", "t", "y", ".", "c", "s", "v">>, FALSE, <<>>),
      Entry("header.csv", <<"h", "e", "a", "d", "e", "r", ".", "c", "s", "v">>,
            FALSE, <<>>),
      Entry("locked.csv", <<"l", "o", "c", "k", "e", "d", ".", "c", "s", "v">>,
            FALSE, <<>>),
      Entry("notes.txt", <<"n", "o", "t", "e", "s", ".", "t", "x", "t">>, FALSE, <<>>),
      Entry("pressure.csv", <<"p", "r", "e", "s", "s", "u", "r", "e", ".", "c", "s",
                              "v">>, FALSE, <<>>),
      Entry("sub", <<"s", "u", "b">>, TRUE, <<EntryTemperature>>)>>

\* filepath.Ext: the suffix of the name from its last dot on, empty without a dot
Ext(name) ==
    LET dots == {i \in 1..Len(name) : name[i] = "."}
    IN  IF dots = {} THEN <<>> ELSE SubSeq(name, SetMax(dots), Len(name))

\* line 112, without strings.ToLower
IsCSVCaseSensitive(entry) == Ext(entry.Letters) = <<".", "c", "s", "v">>

\* line 112: strings.ToLower(filepath.Ext(entry.Name())) == ".csv"
IsCSV(entry) == ToLower(Ext(entry.Letters)) = <<".", "c", "s", "v">>

RECURSIVE findCSVFilesFrom(_, _)
\* lines 105-119: the loop over the entries, from entry k on
findCSVFilesFrom(entries, k) ==
    IF k > Len(entries) THEN <<>>
    ELSE IF entries[k].IsDir THEN findCSVFilesFrom(entries, k + 1)
    ELSE IF IsCSV(entries[k])
         THEN <<FileJob(entries[k].Name)>> \o findCSVFilesFrom(entries, k + 1)
         ELSE findCSVFilesFrom(entries, k + 1)

\* lines 99-102: os.ReadDir fails on a path that is no directory
ReadDir(t) ==
    IF t.kind = "dir" THEN [err |-> "nil", entries |-> t.entries]
    ELSE [err |-> "not a directory", entries |-> <<>>]

\* findCSVFiles: [err, csvFiles]
findCSVFiles(t) ==
    LET read == ReadDir(t)
    IN  IF read.err # "nil" THEN [err |-> read.err, csvFiles |-> <<>>]
        ELSE [err |-> "nil", csvFiles |-> findCSVFilesFrom(read.entries, 1)]

RECURSIVE EntriesOf(_, _)
\* the entries of the directory that holds the entries numbered in dir
EntriesOf(dir, k) ==
    IF k > Len(EntryOrder) THEN <<>>
    ELSE IF k \in dir THEN <<EntryOrder[k]>> \o EntriesOf(dir, k + 1)
    ELSE EntriesOf(dir, k + 1)

\* the directories of at most MaxEntries entries, at most MaxFiles of them CSV
\* files
Directories ==
    {entries \in {EntriesOf(dir, 1) : dir \in {d \in SUBSET DOMAIN EntryOrder :
                                                 Cardinality(d) <= MaxEntries}} :
        Len(findCSVFilesFrom(entries, 1)) <= MaxFiles}

\* what the path may name: nothing, a CSV file, or a directory
Targets ==
    {[kind |-> "missing", name |-> "nowhere", entries |-> <<>>],
     [kind |-> "file", name |-> "temperature.csv", entries |-> <<>>]}
    \cup {[kind |-> "dir", name |-> "test_data", entries |-> entries] :
             entries \in Directories}

InitScan ==
    /\ target \in Targets
    /\ scanErr = "running"
    /\ exitCode = -1
    /\ workerCount \in 1..MaxWorkers
    /\ initStore \in InitStores
    /\ store = initStore
    /\ files = <<>>
    /\ jobs = [buf |-> <<>>, closed |-> FALSE]
    /\ results = [buf |-> <<>>, closed |-> FALSE, closes |-> 0]
    /\ wg = 0
    /\ mainPc = "stat"
    /\ started = 0
    /\ producer = [pc |-> "idle", next |-> 1]
    /\ supervisorPc = "idle"
    /\ worker = <<>>
    /\ allResults = <<>>
    /\ summary = NoSummary
    /\ receipts = <<>>
    /\ panicked = FALSE
    /\ reordered = FALSE
    /\ ConfigIdle /\ ParseIdle

\* lines 67-69, with a check that never fails
StatErrorNever(t) == "nil"

\* lines 67-69: os.Stat, os.IsNotExist
StatError(t) == IF t.kind = "missing" THEN "directory does not exist" ELSE "nil"

\* lines 66-69: the path is checked
Stat ==
    /\ mainPc = "stat"
    /\ IF StatError(target) # "nil"
       THEN scanErr' = StatError(target) /\ mainPc' = "returned"
       ELSE scanErr' = scanErr /\ mainPc' = "find"
    /\ UNCHANGED <<files, store, initStore, jobs, results, wg, started, producer,
                   supervisorPc, worker, allResults, summary, receipts, panicked,
                   reordered, target, exitCode, configVars, parseVars>>

\* line 77, with a job list that is never taken as empty
NoFilesNever(list) == FALSE

\* line 77: len(csvFiles) == 0
NoFiles(list) == Len(list) = 0

\* what Find does with the value findCSVFiles returned
Found(found) ==
    IF found.err # "nil"
    THEN /\ scanErr' = "failed to find CSV files"
         /\ mainPc' = "returned"
         /\ UNCHANGED <<files, receipts>>
    ELSE IF NoFiles(found.csvFiles)
    THEN /\ scanErr' = "nil"
         /\ mainPc' = "returned"
         /\ UNCHANGED <<files, receipts>>
    ELSE /\ files' = found.csvFiles
         /\ receipts' = [x \in DOMAIN found.csvFiles |-> 0]
         /\ mainPc' = "spawn"
         /\ scanErr' = scanErr

\* lines 72-86: findCSVFiles, and the returns on its error and on no file
Find ==
    /\ mainPc = "find"
    /\ Found(findCSVFiles(target))
    /\ UNCHANGED <<store, initStore, jobs, results, wg, started, producer,
                   supervisorPc, worker, allResults, summary, panicked,
                   reordered, target, exitCode, configVars, parseVars>>

\* main.go lines 289-293: logger.Fatalf (os.Exit(1)) on an error
ExitStatus(err) == IF err = "nil" THEN 0 ELSE 1

\* main.go lines 289-294: scanCommand ends as ScanDirectory returned
Exit ==
    /\ mainPc \in {"returned", "done"}
    /\ exitCode = -1
    /\ exitCode' = ExitStatus(scanErr)
    /\ UNCHANGED <<files, store, initStore, jobs, results, wg, mainPc, started,
                   producer, supervisorPc, worker, allResults, summary, receipts,
                   panicked, reordered, target, scanErr, configVars, parseVars>>

NextScan == Stat \/ Find \/ Exit \/ Next

SpecScan == InitScan /\ [][NextScan]_vars

(***************************************************************************)
(* displaySummary over result lists in any order: the results of a run,    *)
(* as the workers may complete them in any order.                          *)
(***************************************************************************)
Result(path, recordCount, errCount, duration, error) ==
    [FilePath |-> path, RecordCount |-> recordCount, ErrorCount |-> errCount,
     Duration |-> duration, Error |-> error]

ResultSamples ==
    UNION {{Result("temperature.csv", 2, 1, d, "nil"),
            Result("mixed.csv", 0, 2, d, "nil"),
            Result("empty.csv", 0, 0, d, "empty CSV file"),
            Result("humidity.csv", 1, 1, d, "failed to insert data")}
           : d \in 1..MaxDuration}

InitSummary ==
    /\ allResults \in SeqsUpTo(ResultSamples, MaxResults) \ {<<>>}
    /\ mainPc = "summary"
    /\ summary = NoSummary
    /\ reordered = FALSE
    /\ files = <<>> /\ store = {} /\ initStore = {}
    /\ jobs = [buf |-> <<>>, closed |-> TRUE]
    /\ results = [buf |-> <<>>, closed |-> TRUE, closes |-> 1]
    /\ wg = 0 /\ started = 0
    /\ producer = [pc |-> "done", next |-> 1]
    /\ supervisorPc = "done"
    /\ worker = <<>>
    /\ receipts = <<>>
    /\ panicked = FALSE
    /\ workerCount = 1 /\ ConfigIdle /\ ParseIdle /\ ScanIdle

\* the results x and x + 1 were completed in the other order
Reorder(x) ==
    /\ x \in 1..(Len(allResults) - 1)
    /\ allResults' = [allResults EXCEPT ![x] = allResults[x + 1],
                                        ![x + 1] = allResults[x]]
    /\ reordered' = (reordered \/ (summary.shown /\ allResults' # allResults))
    /\ UNCHANGED <<files, store, initStore, jobs, results, wg, mainPc, started,
                   producer, supervisorPc, worker, summary, receipts, panicked,
                   configVars, parseVars, scanVars>>

NextSummary == DisplaySummary \/ (\E x \in 1..MaxResults : Reorder(x))

SpecSummary == InitSummary /\ [][NextSummary]_vars

(***************************************************************************)
(* The run of the pool with a single worker: the files one after the       *)
(* other, in the order of the job list.                                    *)
(***************************************************************************)
RECURSIVE Solo(_, _)
\* a worker carries on alone, on the table st, until it is to send its result
Solo(w, st) ==
    IF w.pc = "batch"
    THEN LET r == CreateInBatches(st, Chunk(w.data, w.i))
         IN  Solo(AfterBatch(Batched(w), r), r.store)
    ELSE IF w.pc = "insert"
    THEN LET r == Create(st, w.batch[w.k])
         IN  Solo(AfterCreate(Inserted(w, r), r), r.store)
    ELSE [result |-> w.result, store |-> st]

RECURSIVE SequentialRun(_, _, _, _)
\* the results of the jobs list[x..], in order, and the table they leave
SequentialRun(list, x, st, acc) ==
    IF x > Len(list) THEN [results |-> acc, store |-> st]
    ELSE LET r == Solo(BeginFile(NewWorker, list[x], Disk[list[x].FilePath]), st)
         IN  SequentialRun(list, x + 1, r.store, Append(acc, r.result))

\* the totals of a summary the claims compare (the processing time apart)
Totals(sm) ==
    <<sm.totalFiles, sm.successfulFiles, sm.failedFiles, sm.totalRecords,
      sm.totalErrors>>

\* with one worker the pool is the sequential run
OneWorkerIsSequential ==
    (mainPc = "done" /\ workerCount = 1)
        => /\ allResults = SequentialRun(files, 1, initStore, <<>>).results
           /\ store = SequentialRun(files, 1, initStore, <<>>).store


(***************************************************************************)
(* The properties of the worker pool.                                      *)
(***************************************************************************)
\* the results produced so far: those collected and those still in the channel
Produced == allResults \o results.buf

ResultsOf(rs, path) == {y \in DOMAIN rs : rs[y].FilePath = path}

Returned == mainPc \in {"summary", "done"}

AllExited == started = workerCount /\ \A w \in Workers : worker[w].pc = "done"

\* C1: whatever the worker count, the job list and the interleaving, no
\* FileJob is received from the jobs channel more than once (by any worker),
\* and once the pool has shut down every FileJob was received exactly once:
\* none is processed twice, none is left unprocessed.
C1_JobReceivedOnce ==
    /\ \A x \in DOMAIN files : receipts[x] <= 1
    /\ (results.closed \/ Returned) => \A x \in DOMAIN files : receipts[x] = 1

C1_Witness ==
    /\ mainPc = "done"
    /\ Len(files) >= 2
    /\ workerCount >= 2
    /\ \A x \in DOMAIN files : receipts[x] = 1

\* C2: there is never more than one ProcessResult for a job path, and the
\* list processFilesParallel returns has as many results as there were jobs,
\* exactly one per job path, whether the file succeeded or failed: a file
\* that ends with a terminal error gets its own result with that error and
\* keeps no other job from getting its result.
C2_OneResultPerJob ==
    /\ \A x \in DOMAIN files :
          Cardinality(ResultsOf(Produced, files[x].FilePath)) <= 1
    /\ Returned =>
          /\ Len(allResults) = Len(files)
          /\ \A x \in DOMAIN files :
                /\ Cardinality(ResultsOf(allResults, files[x].FilePath)) = 1
                /\ \A y \in ResultsOf(allResults, files[x].FilePath) :
                      /\ Disk[files[x].FilePath].openErr
                            => allResults[y].Error = "failed to open file"
                      /\ Disk[files[x].FilePath].readErr
                            => allResults[y].Error = "failed to read CSV"
                      /\ Disk[files[x].FilePath] = Readable(<<>>)
                            => allResults[y].Error = "empty CSV file"

C2_Witness ==
    /\ mainPc = "done"
    /\ Len(allResults) = 2
    /\ allResults[1].Error # "nil"
    /\ allResults[2].Error = "nil"
    /\ allResults[2].RecordCount > 0

\* C3: the jobs channel is closed only after every job was sent; the results
\* channel is closed at most once, and only after every worker has exited, so
\* that no send ever meets a closed channel; and the summary is rendered only
\* after the results channel was closed (once) and every result collected.
C3_ShutdownOrder ==
    /\ jobs.closed => producer.next > Len(files)
    /\ results.closes <= 1
    /\ results.closed => AllExited
    /\ ~panicked
    /\ (Returned \/ summary.shown) =>
          /\ results.closed /\ results.closes = 1
          /\ results.buf = <<>>
          /\ Len(allResults) = Len(files)

C3_Witness ==
    /\ summary.shown
    /\ results.closed
    /\ AllExited
    /\ workerCount >= 2
    /\ Len(allResults) >= 2

\* C4: under fair scheduling of the goroutines the pool terminates: every
\* worker eventually exits, the results channel is eventually closed and
\* processFilesParallel eventually returns, also when there are more workers
\* than jobs.
C4_PoolTerminates ==
    <>(AllExited /\ results.closed /\ mainPc = "done")

\* a run of more workers than jobs that returned: the idle worker exited
\* without a result
C4_Witness ==
    /\ mainPc = "done"
    /\ AllExited
    /\ workerCount > Len(files)
    /\ Len(allResults) = Len(files)

\* C5: the run of the pool, with any worker count and in any order of
\* completion, ends with the totals (files, successful, failed, records,
\* parsing errors) of the run with one worker over the same files and the
\* same initial table.
C5_SummaryAsOneWorker ==
    mainPc = "done" =>
        Totals(summary)
            = Totals(displaySummary(SequentialRun(files, 1, initStore, <<>>).results))

(***************************************************************************)
(* The properties of displaySummary.                                       *)
(***************************************************************************)
\* C6: the totals displaySummary computed (files, successful, failed,
\* records, parsing errors, duration) are those it computes on any other
\* order of the same results.
C6_SummaryOrderInsensitive ==
    summary.shown => summary = displaySummary(allResults)

\* the summary was shown and the results, failed and successful ones, were
\* then put in another order
C6_Witness ==
    /\ summary.shown
    /\ reordered
    /\ Len(allResults) >= 2
    /\ allResults[1].Error # "nil"
    /\ allResults[Len(allResults)].Error = "nil"
    /\ allResults[Len(allResults)].RecordCount > 0

(***************************************************************************)
(* The properties of NewCSVScanner and SetWorkerCount.                     *)
(***************************************************************************)
\* C7: a new scanner has min(CPU count, 8) workers; SetWorkerCount(n) with
\* n > 0 sets the worker count to n, also when n > 8, and with n <= 0 leaves
\* it as it was; the worker count is therefore always at least 1.
C7_WorkerCount ==
    /\ ~lastCount.called =>
          workerCount = (IF numCPU < 8 THEN numCPU ELSE 8)
    /\ (lastCount.called /\ lastCount.count > 0) => workerCount = lastCount.count
    /\ (lastCount.called /\ lastCount.count <= 0) => workerCount = prevCount
    /\ workerCount >= 1

C7_Witness ==
    /\ lastCount.called
    /\ lastCount.count > 8
    /\ workerCount = lastCount.count
    /\ prevCount = 8

(***************************************************************************)
(* The properties of parseCSVRecords.                                      *)
(***************************************************************************)
\* the validation stages the row does not pass, each taken on its own
FailedStages(row) ==
    IF Len(row) < 3 THEN {"columns"}
    ELSE {st \in {"timestamp", "name", "value"} :
            \/ st = "timestamp" /\ ~ParseTimestamp(TrimSpace(row[1])).ok
            \/ st = "name" /\ TrimSpace(row[2]) = <<>>
            \/ st = "value" /\ ~ParseFloat(TrimSpace(row[3])).ok}

\* a row with a timestamp in one of the three formats, a name and a number
ValidRow(row) ==
    /\ Len(row) >= 3
    /\ \/ ParseRFC3339(TrimSpace(row[1])).ok
       \/ ParseISONoZone(TrimSpace(row[1])).ok
       \/ ParseSpaced(TrimSpace(row[1])).ok
    /\ FailedStages(row) = {}

\* a row, not a blank line, that fails validation at one stage
FailsOneStage(row) ==
    /\ ParseRow(row).kind # "blank"
    /\ Cardinality(FailedStages(row)) = 1

\* a file whose first row has none of the header words in its first column
HeaderLess(rows) ==
    \/ rows = <<>>
    \/ Len(rows[1]) = 0
    \/ \A word \in headerWords : ~Contains(ToLower(TrimSpace(rows[1][1])), word)

\* C8: every valid row the parser has passed, at any position of the file,
\* the first included, gave exactly one reading and no error, and the
\* timestamp of the reading is in UTC.
C8_ValidRowOneReading ==
    \A k \in 1..Len(rowLog) :
        ValidRow(records[k]) =>
            /\ Len(rowLog[k].readings) = 1
            /\ rowLog[k].errors = 0
            /\ rowLog[k].readings[1].Timestamp.loc = UTCLoc

\* C9: every row the parser has passed that fails validation at a single
\* stage added exactly 1 to the error count and gave no reading, and the
\* parser went on to the end of the file.
C9_FailedRowOneError ==
    /\ \A k \in 1..Len(rowLog) :
          FailsOneStage(records[k]) =>
              /\ rowLog[k].errors = 1
              /\ rowLog[k].readings = <<>>
    /\ parsePc = "done" => Len(rowLog) = Len(records)

\* C10: the file of the three rows bad_ts,temp_01,21.8 then
\* 2025-09-05T08:00:00Z,,21.8 then 2025-09-05T08:00:00Z,temp_01,notanumber
\* gives no reading and 3 errors; and any file without a header whose rows
\* all fail one validation stage gives as many errors as it has rows.
C10_AllRowsCounted ==
    /\ (parsePc = "done" /\ records = <<RowBadTs, RowNoName, RowBadVal>>)
          => (Len(sensorData) = 0 /\ errorCount = 3)
    /\ (/\ parsePc = "done"
        /\ HeaderLess(records)
        /\ \A k \in DOMAIN records : FailsOneStage(records[k]))
          => errorCount = Len(records)


\* the first column of the row has a header word or is not an RFC 3339 time
HeaderLike(row) ==
    /\ Len(row) >= 1
    /\ \/ \E word \in headerWords : Contains(ToLower(TrimSpace(row[1])), word)
       \/ ~ParseRFC3339(TrimSpace(row[1])).ok

\* only the first row is ever skipped as a header, with no reading, no error
HeaderOnlyFirst ==
    \A k \in 1..Len(rowLog) :
        rowLog[k].how = "header" =>
            /\ k = 1
            /\ rowLog[k].readings = <<>>
            /\ rowLog[k].errors = 0

HeaderLikeOfThree(row) == Len(row) >= 3 /\ HeaderLike(row)

\* C11 (as stated): only the first row is ever skipped as a header, with no
\* reading and no error, and it is skipped whenever its first column has a
\* header word or fails to parse as RFC 3339, whatever its number of columns.
C11_HeaderAnyColumns ==
    /\ HeaderOnlyFirst
    /\ Len(rowLog) >= 1 =>
          (rowLog[1].how = "header" <=> HeaderLike(records[1]))

\* C11 (amended): only the first row is ever skipped as a header, with no
\* reading and no error, and it is skipped exactly when it has at least 3
\* columns and its first column has a header word or fails to parse as
\* RFC 3339; a first row of fewer than 3 columns goes through the loop.
C11_HeaderFirstRowOnly ==
    /\ HeaderOnlyFirst
    /\ Len(rowLog) >= 1 =>
          (rowLog[1].how = "header" <=> HeaderLikeOfThree(records[1]))

\* a first row skipped for its timestamp, a header row after it that is not
\* skipped, and a 2-column row that is counted
C11_Witness ==
    /\ parsePc = "done"
    /\ records = <<RowBadTs, RowHeader, RowShortBad>>
    /\ rowLog[1].how = "header"
    /\ rowLog[2].how = "parsed" /\ rowLog[2].errors = 1
    /\ rowLog[3].errors = 1


(***************************************************************************)
(* The properties of processCSVFile.                                       *)
(***************************************************************************)
\* a file made of the header row and valid data rows only
HeaderThenValid(rows) ==
    /\ Len(rows) >= 1
    /\ rows[1] = RowHeader
    /\ \A k \in 2..Len(rows) : ValidRow(rows[k])

\* the files of the disk made of the header row and valid data rows only
HeaderThenValidFiles ==
    {path \in DOMAIN Disk : HeaderThenValid(Disk[path].records)}

EmptyFile(path) == Disk[path] = Readable(<<>>)

EmptyFiles == {x \in DOMAIN files : EmptyFile(files[x].FilePath)}

C14_EmptyFileCompleted ==
    \A y \in DOMAIN Produced :
        EmptyFile(Produced[y].FilePath) =>
            /\ Produced[y].Error = "nil"
            /\ Produced[y].RecordCount = 0
            /\ Produced[y].ErrorCount = 0


(***************************************************************************)
(* The properties of batchInsertSensorData and individualInsert.           *)
(***************************************************************************)
\* C15: when the worker is to publish the result of a file, every reading
\* parsed from the file was handed to the Persistence Layer at least once,
\* in a batch call or in an individual insert: a failed chunk degrades to
\* individual inserts and the later chunks are still handed over.
C15_EveryReadingSubmitted ==
    \A w \in Workers :
        worker[w].pc = "send" => Range(worker[w].data) \subseteq worker[w].submitted


\* C16: in the fallback the records of the failed chunk are handed to Create
\* one by one, in order, each exactly once, whether the inserts before it
\* failed or not; when the fallback is over every record of the chunk was
\* tried and every one of them that met no conflict is in the table.
C16_FallbackTriesAll ==
    \A w \in Workers :
        /\ worker[w].pc = "insert" =>
              /\ worker[w].tried = SubSeq(worker[w].batch, 1, worker[w].k - 1)
              /\ worker[w].successCount <= worker[w].k - 1
        /\ (worker[w].pc = "send" /\ worker[w].batch # <<>>) =>
              worker[w].tried = worker[w].batch
        /\ \A j \in 1..Len(worker[w].tried) :
              Key(worker[w].tried[j]) \in StoreKeys(store)
        /\ (worker[w].pc \in {"insert", "send"} /\ worker[w].lastError = "nil") =>
              /\ worker[w].successCount = Len(worker[w].tried)
              /\ Range(worker[w].tried) \subseteq store

\* a fallback whose first insert failed and whose second succeeded
C16_Witness ==
    \E w \in Workers :
        /\ worker[w].pc = "send"
        /\ Len(worker[w].batch) = 2
        /\ worker[w].tried = worker[w].batch
        /\ Key(worker[w].batch[1]) \in StoreKeys(initStore)
        /\ worker[w].successCount = 1
        /\ worker[w].batch[2] \in store
        /\ worker[w].result.Error = "nil"


\* the file at the path cannot be opened or read, or has no rows
FileLevelFailure(path) ==
    Disk[path].openErr \/ Disk[path].readErr \/ EmptyFile(path)

\* C17: a file that was read and has rows gets a result with no terminal
\* error, whatever the number of its rows that failed parsing and of its
\* records whose insert failed in the fallback, and the summary counts it as
\* successful: only file-level errors make a failed file.
C17_RecordErrorsNeverFailFile ==
    /\ \A y \in DOMAIN Produced :
          Produced[y].Error # "nil" => FileLevelFailure(Produced[y].FilePath)
    /\ summary.shown =>
          summary.failedFiles
              = Cardinality({x \in DOMAIN files : FileLevelFailure(files[x].FilePath)})


\* the table a run of one worker over the files leaves, from a fresh table
PriorStore(list) == SequentialRun(list, 1, {}, <<>>).store

\* the run is over the directory and the table that an earlier run left
Rerun == initStore = PriorStore(files) /\ initStore # {}

\* C18: a run over an unchanged directory, against the table the previous
\* run left, adds no record (the table ends as it started), and the
\* duplicate-key conflicts are none of them fatal: no file ends with the
\* terminal insert error.
C18_RerunIdempotent ==
    (mainPc = "done" /\ Rerun) =>
        /\ store = initStore
        /\ \A y \in DOMAIN allResults : allResults[y].Error # "failed to insert data"

\* the part of C18 that the code keeps: the table ends as it started
RerunAddsNothing == (mainPc = "done" /\ Rerun) => store = initStore


\* the rows of the file that the parser turns into a reading
ParsedCount(rows) ==
    Cardinality({k \in (StartRow(rows) + 1)..Len(rows) :
                    ParseRow(rows[k]).kind = "reading"})

\* that number for each file of the disk
ParsedCounts == [path \in DOMAIN Disk |-> ParsedCount(Disk[path].records)]

\* C19: the RecordCount of a result is the number of rows of the file that
\* parsed into a reading, whatever became of their insertion: the batch
\* call succeeded, the fallback inserted some of them, or the insert ended
\* with a terminal error.
C19_RecordCountIsParsed ==
    /\ \A y \in DOMAIN Produced :
          ~FileLevelFailure(Produced[y].FilePath) =>
              Produced[y].RecordCount = ParsedCounts[Produced[y].FilePath]
    /\ \A w \in Workers :
          worker[w].pc \in {"batch", "insert", "send"} =>
              worker[w].result.RecordCount = Len(worker[w].data)

\* one file whose insert failed altogether and one whose fallback inserted
\* one reading of two
C19_Witness ==
    /\ mainPc = "done"
    /\ Len(allResults) = 2
    /\ \E y \in DOMAIN allResults :
          /\ allResults[y].Error = "failed to insert data"
          /\ allResults[y].RecordCount = 1
    /\ \E y \in DOMAIN allResults :
          /\ allResults[y].Error = "nil"
          /\ allResults[y].RecordCount = 2
    /\ Cardinality(store) = 2

(***************************************************************************)
(* The totals of displaySummary.                                           *)
(***************************************************************************)
RECURSIVE SeqSum(_)
SeqSum(q) == IF q = <<>> THEN 0 ELSE Head(q) + SeqSum(Tail(q))

FailedOf(rs) == {y \in DOMAIN rs : rs[y].Error # "nil"}

\* C20: every result counts as exactly one of failed (it has a terminal
\* error) or successful, so that successful + failed = total files; total
\* records and total parsing errors are the sums of RecordCount and
\* ErrorCount over the successful results only; total processing time is
\* the sum of Duration over all the results.
C20_SummaryAggregation ==
    summary.shown =>
        /\ summary.totalFiles = Len(allResults)
        /\ summary.failedFiles = Cardinality(FailedOf(allResults))
        /\ summary.successfulFiles
              = Cardinality(DOMAIN allResults \ FailedOf(allResults))
        /\ summary.successfulFiles + summary.failedFiles = summary.totalFiles
        /\ summary.totalRecords
              = SeqSum([y \in DOMAIN allResults |->
                           IF y \in FailedOf(allResults) THEN 0
                           ELSE allResults[y].RecordCount])
        /\ summary.totalErrors
              = SeqSum([y \in DOMAIN allResults |->
                           IF y \in FailedOf(allResults) THEN 0
                           ELSE allResults[y].ErrorCount])
        /\ summary.totalDuration
              = SeqSum([y \in DOMAIN allResults |-> allResults[y].Duration])

\* a summary over a failed file that has counts of its own and successful ones
C20_Witness ==
    /\ summary.shown
    /\ Len(allResults) = 3
    /\ \E y \in FailedOf(allResults) : allResults[y].RecordCount > 0
    /\ summary.successfulFiles = 2
    /\ summary.failedFiles = 1
    /\ summary.totalRecords = 2
    /\ summary.totalErrors = 3


(***************************************************************************)
(* The scan command (SpecScan).                                            *)
(***************************************************************************)
\* ScanDirectory returned, or never will: it is past the check of the path and
\* past findCSVFiles
Scanned == mainPc \notin {"stat", "find"}

\* nothing of the pool has happened: no job, no worker, no call of the
\* persistence layer, no summary
NothingProcessed ==
    /\ files = <<>> /\ jobs.buf = <<>> /\ receipts = <<>>
    /\ started = 0 /\ worker = <<>> /\ wg = 0
    /\ store = initStore
    /\ allResults = <<>> /\ ~summary.shown

\* C21: ScanDirectory on a path that does not exist returns the error
\* "directory does not exist" and creates no job, starts no worker, never calls
\* the persistence layer and shows no summary; the command exits with status 1.
C21_MissingPathFails ==
    (target.kind = "missing" /\ Scanned) =>
        /\ scanErr = "directory does not exist"
        /\ mainPc = "returned"
        /\ NothingProcessed
        /\ exitCode \in {-1, 1}

\* the command has exited on a path that does not exist
C21_Witness ==
    /\ target.kind = "missing"
    /\ scanErr = "directory does not exist"
    /\ exitCode = 1

\* the name ends in .csv, in any case of the letters
EndsInCSV(letters) ==
    /\ Len(letters) >= 4
    /\ ToLower(SubSeq(letters, Len(letters) - 3, Len(letters)))
          = <<".", "c", "s", "v">>

\* the positions of the direct children that are files named *.csv
Matching(entries) ==
    {k \in DOMAIN entries : ~entries[k].IsDir /\ EndsInCSV(entries[k].Letters)}

\* per directory: the positions of its matching entries
MatchingOf == [entries \in Directories |-> Matching(entries)]

\* the x-th smallest member of a set of positions
NthOf(S, x) == CHOOSE k \in S : Cardinality({j \in S : j < k}) = x - 1

\* C22: the job list holds exactly one FileJob per direct-child entry that is
\* not a directory and whose extension is .csv in any case, in the order of the
\* entries, and nothing else.
C22_JobListIsMatchingEntries ==
    (target.kind = "dir" /\ Scanned) =>
        /\ Len(files) = Cardinality(MatchingOf[target.entries])
        /\ \A x \in DOMAIN files :
              LET name == target.entries[NthOf(MatchingOf[target.entries], x)].Name
              IN  files[x] = [FilePath |-> name, FileName |-> name]

\* a directory of an upper-case CSV file, a text file and a subdirectory that
\* holds a CSV file: the one job is the upper-case file
C22_Witness ==
    /\ target.kind = "dir"
    /\ Len(target.entries) = 3
    /\ \E k \in DOMAIN target.entries :
          target.entries[k].IsDir /\ target.entries[k].Children # <<>>
    /\ \E k \in DOMAIN target.entries : target.entries[k].Name = "notes.txt"
    /\ files = <<[FilePath |-> "SENSORS.CSV", FileName |-> "SENSORS.CSV"]>>
    /\ mainPc = "done"

\* C23: when the directory exists and holds no matching file, ScanDirectory
\* returns nil with no job: no worker is started, the persistence layer is never
\* called, no summary is shown, and the command exits with status 0.
C23_NoFilesIsSuccess ==
    (target.kind = "dir" /\ MatchingOf[target.entries] = {} /\ Scanned) =>
        /\ scanErr = "nil"
        /\ mainPc = "returned"
        /\ NothingProcessed
        /\ exitCode \in {-1, 0}

\* the command has exited on a directory that holds entries, none of them a
\* CSV file
C23_Witness ==
    /\ target.kind = "dir"
    /\ Len(target.entries) = 3
    /\ MatchingOf[target.entries] = {}
    /\ scanErr = "nil"
    /\ exitCode = 0

\* C24: once the directory scan has found files, ScanDirectory returns nil
\* whatever their results: the command exits with status 0, and the files with
\* a terminal error show as the failed count of the summary.
C24_FileFailuresNotEscalated ==
    (target.kind = "dir" /\ files # <<>>) =>
        /\ scanErr \in {"running", "nil"}
        /\ exitCode \in {-1, 0}
        /\ mainPc = "done" =>
              /\ scanErr = "nil"
              /\ summary.shown
              /\ summary.failedFiles
                    = Cardinality({x \in DOMAIN allResults :
                                     allResults[x].Error # "nil"})

\* the command has exited with status 0 on a directory of two files that both
\* failed
C24_Witness ==
    /\ target.kind = "dir"
    /\ Len(files) = 2
    /\ Len(allResults) = 2
    /\ \A x \in DOMAIN allResults : allResults[x].Error # "nil"
    /\ summary.failedFiles = 2
    /\ exitCode = 0

\* C25: the scan command given the path of a single existing CSV file processes
\* that file alone and exits with status 0.
C25_SingleFileProcessed ==
    (target.kind = "file" /\ Scanned) =>
        /\ scanErr \in {"running", "nil"}
        /\ exitCode \in {-1, 0}
        /\ files = <<[FilePath |-> target.name, FileName |-> target.name]>>


(***************************************************************************)
(* Values that are not finite, and rows with several defects               *)
(* (SpecParseDefects).                                                     *)
(***************************************************************************)
\* the texts of the values that are not finite numbers
NonFiniteTexts == {ValNaN, ValInf, ValPlusInf, ValMinusInf}

\* C26: only finite values are accepted: every row the parser has passed whose
\* trimmed value column is NaN, Inf, +Inf or -Inf gave no reading and one
\* error, and no emitted reading carries a value that is not finite.
C26_OnlyFiniteValues ==
    /\ \A k \in 1..Len(rowLog) :
          (Len(records[k]) >= 3 /\ TrimSpace(records[k][3]) \in NonFiniteTexts)
              => (rowLog[k].readings = <<>> /\ rowLog[k].errors = 1)
    /\ \A x \in DOMAIN sensorData : sensorData[x].Value.class = "finite"

\* a row with no column, or with one column of white space
BlankRow(row) == Len(row) = 0 \/ (Len(row) = 1 /\ TrimSpace(row[1]) = <<>>)

\* the defects of a row, each named by the stage that would reject it
Defects(row) ==
    {st \in {"columns", "timestamp", "name", "value"} :
        \/ st = "columns" /\ Len(row) < 3
        \/ st = "timestamp" /\ Len(row) >= 1
              /\ ~ParseRFC3339(TrimSpace(row[1])).ok
              /\ ~ParseISONoZone(TrimSpace(row[1])).ok
              /\ ~ParseSpaced(TrimSpace(row[1])).ok
        \/ st = "name" /\ Len(row) >= 2 /\ TrimSpace(row[2]) = <<>>
        \/ st = "value" /\ Len(row) >= 3 /\ ~ParseFloat(TrimSpace(row[3])).ok}

\* the first stage of S in the order column count, timestamp, name, value
FirstStage(S) ==
    IF "columns" \in S THEN "columns"
    ELSE IF "timestamp" \in S THEN "timestamp"
    ELSE IF "name" \in S THEN "name"
    ELSE "value"

\* per sample row: whether it is blank, its defects, and the stage at which the
\* loop rejects it
RowDefects ==
    [row \in DefectRowSamples |->
        [blank |-> BlankRow(row), defects |-> Defects(row),
         stage |-> ParseRow(row).stage]]

\* C27: every data row (a row the loop has read: not the skipped header, not
\* a blank row) with several defects added exactly 1 to the error count and
\* gave no reading, the stage that rejects it is the first failing one in the
\* order column count, timestamp, sensor name, value, and no row adds more
\* than 1 to the error count.
C27_OneErrorPerDefectiveRow ==
    \A k \in 1..Len(rowLog) :
        /\ rowLog[k].errors <= 1
        /\ (/\ rowLog[k].how # "header"
            /\ ~RowDefects[records[k]].blank
            /\ Cardinality(RowDefects[records[k]].defects) >= 2) =>
               /\ rowLog[k].errors = 1
               /\ rowLog[k].readings = <<>>
               /\ RowDefects[records[k]].stage
                     = FirstStage(RowDefects[records[k]].defects)

\* a file read to its end with a row that fails all of timestamp, name and
\* value and a row that fails column count and timestamp: 2 errors
C27_Witness ==
    /\ parsePc = "done"
    /\ records = <<RowRFC, RowAllBad, RowShortBad>>
    /\ Defects(RowAllBad) = {"timestamp", "name", "value"}
    /\ Defects(RowShortBad) = {"columns", "timestamp"}
    /\ errorCount = 2
    /\ Len(sensorData) = 1


(***************************************************************************)
(* Row accounting (SpecParse).                                             *)
(***************************************************************************)
\* the classes the passed row k falls in
ClassesOf(k) ==
    {c \in {"header", "blank", "reading", "error"} :
        \/ c = "header" /\ rowLog[k].how = "header"
                        /\ rowLog[k].readings = <<>> /\ rowLog[k].errors = 0
        \/ c = "blank" /\ rowLog[k].how # "header" /\ BlankRow(records[k])
                       /\ rowLog[k].readings = <<>> /\ rowLog[k].errors = 0
        \/ c = "reading" /\ Len(rowLog[k].readings) = 1 /\ rowLog[k].errors = 0
        \/ c = "error" /\ rowLog[k].readings = <<>> /\ rowLog[k].errors = 1}

\* the passed rows of class c
RowsOfClass(c) == {k \in 1..Len(rowLog) : c \in ClassesOf(k)}

\* C29: every row the parser has passed falls in exactly one of the classes
\* skipped header (the first row only), skipped blank row, emitted reading,
\* counted error, and the rows skipped as blank are the blank rows; the
\* readings, the errors, the blank rows and the header add up to the rows
\* passed, which are all the rows at the end; and readings plus errors never
\* exceed the number of rows.
C29_RowAccounting ==
    /\ \A k \in 1..Len(rowLog) : Cardinality(ClassesOf(k)) = 1
    /\ RowsOfClass("header") \subseteq {1}
    /\ RowsOfClass("blank") = {k \in 1..Len(rowLog) : BlankRow(records[k])}
    /\ Len(sensorData) = Cardinality(RowsOfClass("reading"))
    /\ errorCount = Cardinality(RowsOfClass("error"))
    /\ Len(sensorData) + errorCount + Cardinality(RowsOfClass("blank"))
          + Cardinality(RowsOfClass("header")) = Len(rowLog)
    /\ Len(sensorData) + errorCount <= Len(records)
    /\ parsePc = "done" => Len(rowLog) = Len(records)

\* a file read to its end: a header, a blank row and a row counted as an error
C29_Witness ==
    /\ parsePc = "done"
    /\ Len(records) = 3
    /\ RowsOfClass("header") = {1}
    /\ Cardinality(RowsOfClass("blank")) = 1
    /\ errorCount = 1
    /\ sensorData = <<>>


(***************************************************************************)
(* Header-only files and the terminal insert error.                        *)
(***************************************************************************)
\* the file at the path is read and is one header row, no data row
HeaderOnlyFile(path) ==
    /\ ~Disk[path].openErr /\ ~Disk[path].readErr
    /\ Len(Disk[path].records) = 1
    /\ Len(Disk[path].records[1]) >= 3
    /\ \E word \in headerWords :
          Contains(ToLower(TrimSpace(Disk[path].records[1][1])), word)

HeaderOnlyFiles == {path \in DOMAIN Disk : HeaderOnlyFile(path)}

\* C28: a header-only file is not an empty file: the worker makes no call to
\* the persistence layer for it, its result carries no terminal error with
\* RecordCount = 0 and ErrorCount = 0, and the summary counts it as
\* successful.
C28_HeaderOnlyFileSucceeds ==
    /\ \A w \in Workers :
          (worker[w].pc # "receive" /\ worker[w].job.FilePath \in HeaderOnlyFiles) =>
              /\ worker[w].pc = "send"
              /\ worker[w].submitted = {}
              /\ worker[w].ticks = 1
              /\ worker[w].result.Error = "nil"
    /\ \A y \in DOMAIN Produced :
          Produced[y].FilePath \in HeaderOnlyFiles =>
              /\ Produced[y].Error = "nil"
              /\ Produced[y].RecordCount = 0
              /\ Produced[y].ErrorCount = 0
    /\ summary.shown =>
          /\ summary.successfulFiles
                >= Cardinality({x \in DOMAIN files :
                                  files[x].FilePath \in HeaderOnlyFiles})
          /\ (Len(files) = 1 /\ files[1].FilePath \in HeaderOnlyFiles) =>
                /\ summary.successfulFiles = 1
                /\ summary.failedFiles = 0
                /\ summary.totalRecords = 0
                /\ summary.totalErrors = 0
                /\ store = initStore

\* the summary of a directory of a header-only file and an empty file: one
\* successful, one failed
C28_Witness ==
    /\ summary.shown
    /\ files = <<FileJob("empty.csv"), FileJob("header.csv")>>
    /\ summary.successfulFiles = 1
    /\ summary.failedFiles = 1
    /\ summary.totalRecords = 0
    /\ store = initStore

\* C30: a file's result carries the terminal insert error exactly when a
\* batch call failed and, in the chunk of that call (the first that failed),
\* every insert of the fallback failed too; when an insert of that chunk
\* succeeded, or no batch call failed, the result carries no insert error.
C30_InsertErrorIffAllRefused ==
    /\ \A w \in Workers :
          worker[w].pc = "send" =>
              /\ (worker[w].result.Error = "failed to insert data")
                    <=> (worker[w].batch # <<>> /\ worker[w].refused = worker[w].batch)
              /\ worker[w].batch # <<>> =>
                    /\ worker[w].batch = Chunk(worker[w].data, worker[w].i)
                    /\ worker[w].tried = worker[w].batch
                    /\ Len(worker[w].refused) + worker[w].successCount
                          = Len(worker[w].batch)
    /\ \A w \in Workers :
          worker[w].pc = "batch" => worker[w].batch = <<>>

\* a file whose fallback failed on both records of the chunk
C30_Witness ==
    \E w \in Workers :
        /\ worker[w].pc = "send"
        /\ Len(worker[w].batch) = 2
        /\ worker[w].refused = worker[w].batch
        /\ worker[w].result.Error = "failed to insert data"

\* a file whose fallback failed on the first record of the chunk only
C30_WitnessPartial ==
    \E w \in Workers :
        /\ worker[w].pc = "send"
        /\ Len(worker[w].batch) = 2
        /\ Len(worker[w].refused) = 1
        /\ worker[w].result.Error = "nil"


(***************************************************************************)
(* The summary against the table.                                          *)
(***************************************************************************)
\* C31: after a run the readings the run has newly persisted are at most the
\* total records of the summary; in particular a file counted as failed has
\* persisted none of its readings.
C31_TotalRecordsBoundsPersisted ==
    (mainPc = "done" /\ summary.shown) =>
        Cardinality(store \ initStore) <= summary.totalRecords


(***************************************************************************)
(* Bounded parallelism.                                                    *)
(***************************************************************************)
\* the workers that hold a file: between the receive of a job and the send of
\* its result
Busy == {w \in Workers : worker[w].pc \in {"batch", "insert", "send"}}

\* the workers whose next step is a call of the persistence layer
Persisting == {w \in Workers : worker[w].pc \in {"batch", "insert"}}

\* C32: exactly workerCount worker goroutines are started per run (never more,
\* and all of them once the jobs are being sent); each worker holds one file at
\* a time and no file is held by two workers; so the files in process, and the
\* calls of the persistence layer in progress, are at most workerCount.
C32_BoundedParallelism ==
    /\ started <= workerCount
    /\ Len(worker) = started
    /\ mainPc # "spawn" => started = workerCount
    /\ Cardinality(Busy) <= workerCount
    /\ Cardinality(Persisting) <= workerCount
    /\ \A v, w \in Busy : v # w => worker[v].job # worker[w].job
    /\ Cardinality({worker[w].job : w \in Busy}) <= workerCount

\* two workers, each about to call the persistence layer for a file of its own
C32_Witness ==
    /\ workerCount = 2
    /\ Cardinality(Persisting) = 2
    /\ \E v, w \in Persisting : worker[v].job # worker[w].job


(***************************************************************************)
(* The table after a run.                                                  *)
(***************************************************************************)
\* per file of the disk: the keys of its parsed readings (none for a file that
\* cannot be opened or read), and whether its readings fit in one chunk
FileKeys ==
    [path \in DOMAIN Disk |->
        IF Disk[path].openErr \/ Disk[path].readErr
        THEN [keys |-> {}, oneChunk |-> TRUE]
        ELSE [keys |-> {Key(r) : r \in Range(ParsedRows[Disk[path].records].sensorData)},
              oneChunk |-> Len(ParsedRows[Disk[path].records].sensorData)
                              <= batchSize]]

\* the readings of every file of the job list fit in a single chunk
SingleChunkFiles == \A x \in DOMAIN files : FileKeys[files[x].FilePath].oneChunk

\* C33: the composite key (timestamp, sensor name) is unique in the table in
\* every reachable state; and when the readings of each file fit in a single
\* chunk, the keys of the table after the run are those of the table the run
\* found and those of the parsed readings of all the files, whatever the worker
\* count and the interleaving, also when files hold the same key.
C33_StoreDeterminism ==
    /\ \A a, b \in store : Key(a) = Key(b) => a = b
    /\ initStore \subseteq store
    /\ (mainPc = "done" /\ SingleChunkFiles) =>
          StoreKeys(store)
            = StoreKeys(initStore)
                \cup UNION {FileKeys[files[x].FilePath].keys : x \in DOMAIN files}

\* a run of two workers over two files that hold the same key, on a table that
\* holds it too
C33_Witness ==
    /\ mainPc = "done"
    /\ workerCount = 2
    /\ files = <<FileJob("humidity.csv"), FileJob("temperature.csv")>>
    /\ initStore # {}
    /\ FileKeys["humidity.csv"].keys \subseteq FileKeys["temperature.csv"].keys
    /\ FileKeys["humidity.csv"].keys \subseteq StoreKeys(initStore)
    /\ Cardinality(StoreKeys(store)) = 2

=============================================================================
